---- MODULE Spec2Model ----
(***************************************************************************)
(* A model of the scraping operations of the NHL-Prospect-Predictor        *)
(* repository:                                                             *)
(*   src/eliteprospects_scraper/eliteprospects_scraper_api.py  (EP)        *)
(*   src/eliteprospects_scraper/nhl_scraper_api.py             (NHL)       *)
(*                                                                         *)
(* One public operation runs at a time (the code is single-threaded).      *)
(* `op` names the running operation and `pc` its position; the web site    *)
(* and the browser are the environment: every HTTP response, rendered      *)
(* page and selenium call outcome is a nondeterministic choice.  `trace`   *)
(* records the externally visible events of the running call in order.     *)
(*                                                                         *)
(* Text that the code parses is a sequence of one-character strings, so    *)
(* that the regular expressions are computed and not assumed.              *)
(***************************************************************************)
EXTENDS Integers, Sequences, FiniteSets, TLC

\* Largest number of listing pages one get_season_roster call walks through.
MaxPages == 2

(***************************************************************************)
(* Characters and Python text primitives                                   *)
(***************************************************************************)
\* One-character token standing for U+00A0 (no-break space).
NBSP == "nbsp"

Digit == {"0", "1", "2", "3", "4", "5", "6", "7", "8", "9"}

\* What \s matches and what int() strips: space, newline, tab, no-break space.
Whitespace == {" ", "\n", "\t", NBSP}

DigitVal(c) ==
    CASE c = "0" -> 0 [] c = "1" -> 1 [] c = "2" -> 2 [] c = "3" -> 3
      [] c = "4" -> 4 [] c = "5" -> 5 [] c = "6" -> 6 [] c = "7" -> 7
      [] c = "8" -> 8 [] c = "9" -> 9

RECURSIVE LStrip(_)
LStrip(s) == IF s # <<>> /\ Head(s) \in Whitespace THEN LStrip(Tail(s)) ELSE s

RECURSIVE RStrip(_)
RStrip(s) ==
    IF s # <<>> /\ s[Len(s)] \in Whitespace
    THEN RStrip(SubSeq(s, 1, Len(s) - 1))
    ELSE s

\* str.strip()
Strip(s) == RStrip(LStrip(s))

RECURSIVE DigitsValue(_)
DigitsValue(s) ==
    IF s = <<>> THEN 0
    ELSE 10 * DigitsValue(SubSeq(s, 1, Len(s) - 1)) + DigitVal(s[Len(s)])

\* int(s) on a string of digits and whitespace: surrounding whitespace is
\* stripped, then anything but a non-empty digit string is a ValueError.
PyInt(s) ==
    LET t == RStrip(LStrip(s)) IN
    IF t = <<>> \/ \E k \in 1..Len(t) : t[k] \notin Digit
    THEN [ok |-> FALSE, val |-> 0]
    ELSE [ok |-> TRUE, val |-> DigitsValue(t)]

\* s.replace(' ', ''): removes U+0020 only.
ReplaceSpace(s) == SelectSeq(s, LAMBDA c : c # " ")

(***************************************************************************)
(* Results of a call                                                       *)
(***************************************************************************)
Pending == [kind |-> "pending", val |-> ""]
Returned(v) == [kind |-> "returned", val |-> v]
Raised(e) == [kind |-> "raised", val |-> e]

(***************************************************************************)
(* Input validation (EP get_season_roster, NHL validate_team/season)       *)
(***************************************************************************)
valid_leagues ==
    {"nhl", "ahl", "echl", "sphl", "ncaa", "whl", "ohl", "qmjhl", "ushl",
     "nahl", "khl", "shl", "liiga", "nl", "czechia", "slovakia", "latvia",
     "finland"}

\* re.match(r'^\d{4}-\d{4}$', season): '$' matches at the end of the string
\* and also just before a newline that ends the string.
ReMatchSeason(season) ==
    /\ \/ Len(season) = 9
       \/ Len(season) = 10 /\ season[10] = "\n"
    /\ \A k \in {1, 2, 3, 4, 6, 7, 8, 9} : season[k] \in Digit
    /\ season[5] = "-"

S_2021_2022 == <<"2", "0", "2", "1", "-", "2", "0", "2", "2">>
S_2004_2005 == <<"2", "0", "0", "4", "-", "2", "0", "0", "5">>
S_2021_slash_2022 == <<"2", "0", "2", "1", "/", "2", "0", "2", "2">>
S_2021_2022_newline == <<"2", "0", "2", "1", "-", "2", "0", "2", "2", "\n">>
S_2021_22 == <<"2", "0", "2", "1", "-", "2", "2">>

\* Season arguments a caller passes.
SeasonInputs ==
    {S_2021_2022, S_2004_2005, S_2021_slash_2022, S_2021_2022_newline,
     S_2021_22}

\* League arguments a caller passes.
LeagueInputs == {"nhl", "ohl", "fake"}

(***************************************************************************)
(* Pagination Resolver: get_number_of_pages                                *)
(***************************************************************************)
PlayersFound ==
    <<"p", "l", "a", "y", "e", "r", "s", " ", "f", "o", "u", "n", "d">>

\* The character class [\d\s].
InCountClass(c) == c \in Digit \cup Whitespace

LiteralAt(text, j) ==
    /\ j + Len(PlayersFound) - 1 <= Len(text)
    /\ \A k \in 1..Len(PlayersFound) : text[j + k - 1] = PlayersFound[k]

\* ([\d\s]+)players found matches with the group spanning text[i..j-1].
MatchSpan(text, i, j) ==
    /\ i < j
    /\ \A k \in i..(j - 1) : InCountClass(text[k])
    /\ LiteralAt(text, j)

\* re.search(r'([\d\s]+)players found', text): the leftmost match; the group
\* is greedy.
ReSearchCount(text) ==
    LET starts == {i \in 1..Len(text) :
                      \E j \in (i + 1)..Len(text) : MatchSpan(text, i, j)}
    IN  IF starts = {}
        THEN [matched |-> FALSE, group |-> <<>>]
        ELSE LET i == CHOOSE x \in starts : \A y \in starts : x <= y
                 ends == {j \in (i + 1)..Len(text) : MatchSpan(text, i, j)}
                 j == CHOOSE x \in ends : \A y \in ends : x >= y
             IN  [matched |-> TRUE, group |-> SubSeq(text, i, j - 1)]

\* The value get_number_of_pages computes from the fetched listing page:
\* resp.div says whether the pagination div exists, resp.text is its
\* get_text(strip=True).
get_number_of_pages(resp) ==
    IF resp.div
    THEN LET match == ReSearchCount(resp.text) IN
         IF match.matched
         THEN LET num_players == PyInt(ReplaceSpace(match.group)) IN
              IF num_players.ok
              THEN [kind |-> "returned", exc |-> "",
                    n |-> (num_players.val \div 100) + 1]
              ELSE [kind |-> "raised", exc |-> "ValueError", n |-> 0]
         ELSE [kind |-> "returned", exc |-> "", n |-> 0]
    ELSE [kind |-> "returned", exc |-> "", n |-> 0]

T_12_345 ==
    <<"1", "2", " ", "3", "4", "5", " ", "p", "l", "a", "y", "e", "r", "s",
      " ", "f", "o", "u", "n", "d">>
T_42 ==
    <<"4", "2", " ", "p", "l", "a", "y", "e", "r", "s", " ", "f", "o", "u",
      "n", "d">>
T_150 ==
    <<"1", "5", "0", " ", "p", "l", "a", "y", "e", "r", "s", " ", "f", "o",
      "u", "n", "d">>
T_7_glued ==
    <<"7", "p", "l", "a", "y", "e", "r", "s", " ", "f", "o", "u", "n", "d">>
T_No ==
    <<"N", "o", " ", "p", "l", "a", "y", "e", "r", "s", " ", "f", "o", "u",
      "n", "d">>
T_12_nbsp_345 ==
    <<"1", "2", NBSP, "3", "4", "5", " ", "p", "l", "a", "y", "e", "r", "s",
      " ", "f", "o", "u", "n", "d">>
T_Showing == <<"S", "h", "o", "w", "i", "n", "g", " ", "a", "l", "l">>

\* Listing pages the site can answer the pagination fetch with.
PaginationResponses ==
    {[div |-> FALSE, text |-> <<>>]}
    \cup {[div |-> TRUE, text |-> t] :
            t \in {T_12_345, T_42, T_150, T_7_glued, T_No, T_12_nbsp_345,
                   T_Showing, <<>>}}

(***************************************************************************)
(* Table Extractor: table_data_to_rows                                     *)
(***************************************************************************)
\* A value pandas fills in where a cell is missing (None / NaN); no cell
\* text equals it.
NaN == "<NaN>"

SeqMax(lens) == IF lens = {} THEN 0 ELSE CHOOSE x \in lens : \A y \in lens : x >= y

\* A row padded with missing values up to the given width.
PadRow(row, width) ==
    [k \in 1..width |-> IF k <= Len(row) THEN row[k] ELSE NaN]

\* A table is its sequence of <tr>; a <tr> has the texts of its <th> cells,
\* the texts of its <td> cells and the hrefs of the anchors inside it.
\* The result is pd.DataFrame(rows[1:], columns=rows[0]): pandas pads short
\* rows and rejects data whose width differs from the number of columns.
table_data_to_rows(table) ==
    IF table.trs = <<>>
    THEN [kind |-> "raised", exc |-> "IndexError", columns |-> <<>>, data |-> <<>>]
    ELSE LET trs == table.trs
             header_row == trs[1].th
             rows == IF header_row # <<>>
                     THEN <<header_row>> \o [k \in 1..(Len(trs) - 1) |-> trs[k + 1].td]
                     ELSE [k \in 1..Len(trs) |-> trs[k].td]
             columns == rows[1]
             data == Tail(rows)
             width == SeqMax({Len(data[k]) : k \in 1..Len(data)})
         IN  IF data # <<>> /\ width # Len(columns)
             THEN [kind |-> "raised", exc |-> "ValueError",
                   columns |-> <<>>, data |-> <<>>]
             ELSE [kind |-> "returned", exc |-> "", columns |-> columns,
                   data |-> [k \in 1..Len(data) |-> PadRow(data[k], width)]]

HasColumn(columns, name) == \E k \in 1..Len(columns) : columns[k] = name

ColIndex(columns, name) ==
    CHOOSE k \in 1..Len(columns) :
        columns[k] = name /\ \A m \in 1..(k - 1) : columns[m] # name

(***************************************************************************)
(* Listing pages of the aggregator site                                    *)
(***************************************************************************)
\* An href is the sequence of its path segments: <<"player", "1", "x">> is
\* "/player/1/x".  str.contains("/player/") needs the segment "player"
\* followed by a further "/".
ContainsPlayerMarker(href) == \E k \in 1..(Len(href) - 1) : href[k] = "player"

H_Jane == <<"player", "1", "jane-smith">>
H_John == <<"player", "2", "john-doe">>
H_Sam == <<"player", "3", "sam-lee">>
H_Team == <<"team", "52", "boston-bruins">>
H_Sort == <<"league", "nhl", "stats">>

RosterHeader ==
    [th |-> <<"#", "Player", "Team">>, td |-> <<>>, a |-> <<H_Sort>>]
TR_Jane ==
    [th |-> <<>>, td |-> <<"1", "Jane Smith (D)", "Boston Bruins">>,
     a |-> <<H_Jane, H_Team>>]
TR_John ==
    [th |-> <<>>, td |-> <<"2", "John Doe (C)", "Boston Bruins">>,
     a |-> <<H_John, H_Team>>]
\* A populated row whose player cell carries no anchor.
TR_John_unlinked ==
    [th |-> <<>>, td |-> <<"2", "John Doe (C)", "Boston Bruins">>,
     a |-> <<H_Team>>]
\* A populated row whose player cell shows no position.
TR_Sam ==
    [th |-> <<>>, td |-> <<"3", "Sam Lee", "Boston Bruins">>,
     a |-> <<H_Sam, H_Team>>]
\* The spacer row the site puts between blocks of players.
TR_Spacer == [th |-> <<>>, td |-> <<"", "", "">>, a |-> <<>>]

NoTable == [present |-> FALSE, trs |-> <<>>]
Table(trs) == [present |-> TRUE, trs |-> trs]

\* Pages the site can answer a page fetch with.
RosterPages ==
    {NoTable,
     Table(<<RosterHeader>>),
     Table(<<RosterHeader, TR_Jane>>),
     Table(<<RosterHeader, TR_Jane, TR_Spacer, TR_John>>),
     Table(<<RosterHeader, TR_Jane, TR_John_unlinked>>),
     Table(<<RosterHeader, TR_Spacer>>),
     Table(<<RosterHeader, TR_Sam>>),
     Table(<<RosterHeader, TR_Sam, TR_Jane>>),
     Table(<<[th |-> <<"Player", "Team">>, td |-> <<>>, a |-> <<H_Sort>>],
             [th |-> <<>>, td |-> <<"Jane Smith (D)", "Boston Bruins">>,
              a |-> <<H_Jane, H_Team>>]>>)}

\* The rank cells of the data rows of a page, read off the markup.
RankCells(page) ==
    IF ~page.present \/ page.trs = <<>> \/ ~HasColumn(page.trs[1].th, "#")
    THEN <<>>
    ELSE LET c == ColIndex(page.trs[1].th, "#") IN
         [k \in 1..(Len(page.trs) - 1) |->
            IF Len(page.trs[k + 1].td) < c THEN "" ELSE page.trs[k + 1].td[c]]

\* Number of data rows of a page that show a player (a non-empty rank).
PopulatedRows(page) ==
    Cardinality({k \in 1..Len(RankCells(page)) : RankCells(page)[k] # ""})

RECURSIVE Flatten(_)
Flatten(seqs) == IF seqs = <<>> THEN <<>> ELSE Head(seqs) \o Flatten(Tail(seqs))

NoLink == [na |-> TRUE, href |-> <<>>]
Link(h) == [na |-> FALSE, href |-> h]

\* df_players['link'] = df_links['link']: assignment aligns on the index, so
\* row n takes the n-th surviving href and a row past the last href takes a
\* missing value.
AlignLinks(nrows, links) ==
    [n \in 1..nrows |-> IF n <= Len(links) THEN Link(links[n]) ELSE NoLink]

\* The body of the page loop of get_season_roster for one fetched page:
\* "skip" (nothing appended, no delay), "append" (a frame appended, then the
\* delay) or "raised".
RosterPageStep(page) ==
    LET skip == [kind |-> "skip", exc |-> "", columns |-> <<>>, data |-> <<>>,
                 link |-> <<>>]
        raise(e) == [kind |-> "raised", exc |-> e, columns |-> <<>>,
                     data |-> <<>>, link |-> <<>>]
    IN
    IF ~page.present THEN skip
    ELSE LET df == table_data_to_rows(page) IN
         IF df.kind = "raised" THEN raise(df.exc)
         ELSE IF ~HasColumn(df.columns, "#") THEN raise("KeyError")
         ELSE LET c == ColIndex(df.columns, "#")
                  count == Cardinality({k \in 1..Len(df.data) : df.data[k][c] # NaN})
              IN
              IF count = 0 THEN skip
              ELSE LET kept == SelectSeq(df.data, LAMBDA r : r[c] # "")
                       href_row == Flatten([k \in 1..Len(page.trs) |-> page.trs[k].a])
                   IN
                   IF href_row = <<>> THEN raise("IndexError")
                   ELSE [kind |-> "append", exc |-> "", columns |-> df.columns,
                         data |-> kept,
                         link |-> AlignLinks(Len(kept),
                                     SelectSeq(href_row, ContainsPlayerMarker))]

\* col_name.lower() for the header texts of the site.
Lower(name) ==
    CASE name = "Player" -> "player"
      [] name = "Team" -> "team"
      [] OTHER -> name

\* The characters of the player cell texts of the pages.
Chars(text) ==
    CASE text = "Jane Smith (D)" ->
          <<"J", "a", "n", "e", " ", "S", "m", "i", "t", "h", " ", "(",
            "D", ")">>
      [] text = "John Doe (C)" ->
          <<"J", "o", "h", "n", " ", "D", "o", "e", " ", "(", "C", ")">>
      [] text = "Sam Lee" ->
          <<"S", "a", "m", " ", "L", "e", "e">>
      [] OTHER -> <<>>

\* A missing value in a column of texts.
NaNText == <<NaN>>

\* r"\(.*?\)" matches at position j: an opening parenthesis and, before the
\* end of its line, a closing one.
ParenAt(s, j) ==
    /\ s[j] = "("
    /\ \E m \in (j + 1)..Len(s) :
          s[m] = ")" /\ \A k \in (j + 1)..(m - 1) : s[k] # "\n"

\* The position of the closing parenthesis the lazy .*? stops at.
ParenEnd(s, j) ==
    CHOOSE m \in (j + 1)..Len(s) :
        s[m] = ")" /\ \A k \in (j + 1)..(m - 1) : s[k] # ")"

\* Line 278: .str.replace(r'\s*\(.*?\)', "", regex=True) removes every
\* parenthetical together with the whitespace before it.
RECURSIVE RemoveParentheticals(_)
RemoveParentheticals(s) ==
    LET starts == {n \in 1..Len(s) :
                     \E j \in n..Len(s) :
                        /\ \A k \in n..(j - 1) : s[k] \in Whitespace
                        /\ ParenAt(s, j)}
    IN  IF starts = {} THEN s
        ELSE LET n == CHOOSE n \in starts : \A m \in starts : n <= m
                 j == CHOOSE j \in n..Len(s) :
                         /\ \A k \in n..(j - 1) : s[k] \in Whitespace
                         /\ ParenAt(s, j)
             IN  SubSeq(s, 1, n - 1)
                   \o RemoveParentheticals(SubSeq(s, ParenEnd(s, j) + 1, Len(s)))

\* Line 280: .str.extract(r'\((.*?)\).*') gives the content of the first
\* parenthetical, a missing value when the text has none.
ExtractPosition(s) ==
    LET opens == {j \in 1..Len(s) : ParenAt(s, j)}
    IN  IF opens = {} THEN NaNText
        ELSE LET j == CHOOSE j \in opens : \A m \in opens : j <= m
             IN  SubSeq(s, j + 1, ParenEnd(s, j) - 1)

\* df_players['position'].str.contains('D'): "True", "False", or a missing
\* value where the position is missing.
StrContainsD(position) ==
    IF position = NaNText THEN NaN
    ELSE IF \E k \in 1..Len(position) : position[k] = "D" THEN "True"
    ELSE "False"

\* Lines 283-285: np.where(condition, 'DEF', 'FW') on the object column of
\* conditions: every value but False is true, the missing value included.
fw_def(position) ==
    IF StrContainsD(position) # "False" THEN "DEF" ELSE "FW"

\* The rows of one appended frame as returned records: the columns are
\* lowercased, '#' is dropped, season and league are attached, name,
\* position and role are derived from the player cell.
FrameRecords(frame, league, season) ==
    LET cols == [k \in 1..Len(frame.columns) |-> Lower(frame.columns[k])]
    IN  [n \in 1..Len(frame.data) |->
            [player |-> frame.data[n][ColIndex(cols, "player")],
             team |-> frame.data[n][ColIndex(cols, "team")],
             link |-> frame.link[n],
             season |-> season,
             league |-> league,
             player_name |->
                 RemoveParentheticals(Chars(frame.data[n][ColIndex(cols, "player")])),
             position |->
                 ExtractPosition(Chars(frame.data[n][ColIndex(cols, "player")])),
             fw_def |->
                 fw_def(ExtractPosition(
                            Chars(frame.data[n][ColIndex(cols, "player")])))]]

\* What get_season_roster does after the page loop: pd.concat(players)
\* raises ValueError ("No objects to concatenate") on an empty list.
RosterAssemble(players, league, season) ==
    IF players = <<>>
    THEN [kind |-> "raised", exc |-> "ValueError", rows |-> <<>>]
    ELSE IF \E k \in 1..Len(players) :
               ~HasColumn(players[k].columns, "Player")
               \/ ~HasColumn(players[k].columns, "Team")
    THEN [kind |-> "raised", exc |-> "KeyError", rows |-> <<>>]
    ELSE [kind |-> "returned", exc |-> "",
          rows |-> Flatten([k \in 1..Len(players) |->
                              FrameRecords(players[k], league, season)])]

(***************************************************************************)
(* Official-site team roster: validation and row extraction                *)
(***************************************************************************)
valid_teams ==
    {"bruins", "sabres", "redwings", "panthers", "canadiens", "senators",
     "lightning", "mapleleafs", "hurricanes", "bluejackets", "devils",
     "islanders", "rangers", "flyers", "penguins", "capitals", "blackhawks",
     "avalanche", "stars", "wild", "predators", "blues", "jets", "ducks",
     "flames", "oilers", "kings", "sharks", "kraken", "canucks",
     "goldenknights", "utah"}

validate_team(team) == team \in valid_teams

validate_season(season) == ReMatchSeason(season)

\* Team arguments a caller passes.
TeamInputs == {"bruins", "utah", "fake"}

\* The lockout test written against the concatenated years: never true of a
\* YYYY-YYYY season.
IsLockoutSeason_concatenated(season) ==
    season = <<"2", "0", "0", "4", "2", "0", "0", "5">>

\* if season == "2004-2005"
IsLockoutSeason(season) == season = S_2004_2005

\* The head of both team roster collectors: team check, season check,
\* lockout check.  Pending means the collector goes on to the browser.
TeamRosterHead(team, season) ==
    IF ~validate_team(team) THEN Raised("ValueError")
    ELSE IF ~validate_season(season) THEN Raised("ValueError")
    ELSE IF IsLockoutSeason(season) THEN Returned("None")
    ELSE Pending

\* A rendered table row: name is "found" or "missing" (no /player/ anchor),
\* img is "raster", "vector" or "none", pos is a position label or "" when
\* the row has no span[aria-label].
TeamRow(id, name, img, pos) == [id |-> id, name |-> name, img |-> img, pos |-> pos]

TeamEntry(row) ==
    [player_name |-> row.id,
     player_pos |-> IF row.pos = "" THEN "G" ELSE row.pos,
     player_link |-> <<"player", row.id>>,
     player_image |-> row.img]

\* Body of the row loop of get_player_by_team: the position lookup and
\* players.append sit inside the handler of the raster lookup, so they run
\* only when the raster lookup raised.
OwnDriverRowEntries(row) ==
    IF row.name = "missing" THEN <<>>
    ELSE IF row.img = "raster" THEN <<>>
    ELSE <<TeamEntry(row)>>

\* Body of the row loop of get_player_by_team_with_reusable_driver.
ReusableDriverRowEntries(row) ==
    IF row.name = "missing" THEN <<>>
    ELSE <<TeamEntry(row)>>

TeamRowEntries(o, rows) ==
    Flatten([k \in 1..Len(rows) |->
                IF o = "get_player_by_team"
                THEN OwnDriverRowEntries(rows[k])
                ELSE ReusableDriverRowEntries(rows[k])])

\* Rendered team stats tables.
TeamPages ==
    {<<>>,
     <<TeamRow("p1", "found", "raster", "C")>>,
     <<TeamRow("p1", "found", "vector", "D"), TeamRow("p2", "found", "none", "")>>,
     <<TeamRow("p1", "missing", "none", ""), TeamRow("p2", "found", "raster", "")>>}

(***************************************************************************)
(* Player detail and facts collectors: handlers                            *)
(***************************************************************************)
\* Stat-category arguments a caller passes.
StatTypeInputs ==
    {"Regular Season", "Postseason", "Regular Season + Postseason", "Playoffs"}

\* The outer handler letting the exception go on to the caller.
StatsOuterExcept_reraise(e) == [pc |-> "ps_finally", exc |-> e]

\* get_player_stats: "except Exception as e: print(...)" of the outer try.
\* The exception is dropped and control reaches the finally clause.
StatsOuterExcept(e) == [pc |-> "ps_finally", exc |-> ""]

\* get_player_stats: "finally: driver.quit()".
StatsCleanup == <<"driver.quit">>

FactsOps == {"get_player_facts", "get_player_facts_with_reusable_driver"}

\* Both variants answering a failure with an empty frame.
FactsOuterExcept_both_empty(o, e) == [exc |-> "", result |-> "EmptyDataFrame"]

\* The handler of the outer try of the facts collectors:
\* get_player_facts returns pd.DataFrame(), the reusable-driver variant
\* raises Exception(...).
FactsOuterExcept(o, e) ==
    IF o = "get_player_facts"
    THEN [exc |-> "", result |-> "EmptyDataFrame"]
    ELSE [exc |-> "Exception", result |-> "None"]

\* The session released in the handler and again in the finally clause.
FactsCleanup_quit_twice(o) ==
    IF o = "get_player_facts" THEN <<"driver.quit", "driver.quit">> ELSE <<>>

\* get_player_facts: "finally: driver.quit()"; the reusable-driver variant
\* has no cleanup.
FactsCleanup(o) == IF o = "get_player_facts" THEN <<"driver.quit">> ELSE <<>>

\* The field groups of the facts record, in the order the code takes them.
FactGroups ==
    {"main", "extra", "height_weight", "highlights", "player_types",
     "description"}

\* Both variants raising from the handlers of the main and extra lists.
GroupHandler_both_raise(o, g) ==
    IF g \in {"main", "extra"} THEN "raise" ELSE "catch"

\* What the handler around a field group does with a failure: "catch"
\* (print and go on) or "raise".  The reusable-driver variant raises from
\* the handlers of the main and extra facts lists.
GroupHandler(o, g) ==
    IF o = "get_player_facts_with_reusable_driver" /\ g \in {"main", "extra"}
    THEN "raise"
    ELSE "catch"

\* What can happen while a field group is read off the page.
GroupOutcomes(g) ==
    IF g = "height_weight" THEN {"ok"}
    ELSE IF g \in {"main", "extra"} THEN {"ok", "item_fail", "fail"}
    ELSE {"ok", "fail"}

\* The handler around one <li> of the main and extra lists: get_player_facts
\* skips the item ("continue"), the reusable-driver variant raises.
ItemHandler(o) == IF o = "get_player_facts" THEN "continue" ELSE "raise"

\* Whether the outcome of reading group g leaves the call inside the outer
\* try ("go on") or sends it to the outer handler ("abort").
GroupResult(o, g, out) ==
    CASE out = "ok" -> "go on"
      [] out = "item_fail" ->
            IF ItemHandler(o) = "continue" THEN "go on" ELSE "abort"
      [] out = "fail" -> IF GroupHandler(o, g) = "catch" THEN "go on" ELSE "abort"

NoFacts == [g \in FactGroups |-> "unset"]

(***************************************************************************)
(* State                                                                   *)
(***************************************************************************)
(***************************************************************************)
(* merge_stats: frames, concatenation and the left join                    *)
(***************************************************************************)
\* A frame is its column names and its rows, a row holding one value per
\* column.
Frame(columns, rows) == [columns |-> columns, rows |-> rows]

ColumnSet(df) == {df.columns[k] : k \in 1..Len(df.columns)}

\* The value of a row under a column name.
Value(df, row, name) == row[ColIndex(df.columns, name)]

\* required_columns = {'season', 'team', 'league'}
required_columns == {"season", "team", "league"}

\* on=['player_name', 'season', 'team', 'league']
merge_on == <<"player_name", "season", "team", "league">>

MergeOnSet == {merge_on[k] : k \in 1..Len(merge_on)}

\* pd.concat([a, b], ignore_index=True): the columns of a, then those of b
\* that a lacks; the rows of a, then those of b, a missing value where a
\* row's frame lacks the column.
pd_concat(a, b) ==
    LET columns == a.columns \o SelectSeq(b.columns, LAMBDA c : c \notin ColumnSet(a))
        widen(df, row) ==
            [k \in 1..Len(columns) |->
                IF columns[k] \in ColumnSet(df) THEN Value(df, row, columns[k])
                ELSE NaN]
    IN  Frame(columns,
              [n \in 1..Len(a.rows) |-> widen(a, a.rows[n])]
                \o [n \in 1..Len(b.rows) |-> widen(b, b.rows[n])])

\* A join that drops a left row without a match.
UnmatchedLeftRow_dropped(row, width) == <<>>

\* how='left': a left row without a match is kept once, with missing values
\* in the columns of the right frame.
UnmatchedLeftRow(row, width) == <<row \o [k \in 1..width |-> NaN]>>

\* left.merge(right, on=merge_on, how='left', suffixes=('_regular', '_post')):
\* KeyError when a key column is missing on either side; a non-key column
\* named on both sides takes the suffixes; the left rows keep their order,
\* each followed by the values of every right row with equal keys.
pd_merge_left(left, right) ==
    IF ~(MergeOnSet \subseteq ColumnSet(left)) \/ ~(MergeOnSet \subseteq ColumnSet(right))
    THEN [kind |-> "raised", exc |-> "KeyError", df |-> Frame(<<>>, <<>>)]
    ELSE LET shared == (ColumnSet(left) \cap ColumnSet(right)) \ MergeOnSet
             rightCols == SelectSeq(right.columns, LAMBDA c : c \notin MergeOnSet)
             columns ==
                 [k \in 1..Len(left.columns) |->
                    IF left.columns[k] \in shared
                    THEN left.columns[k] \o "_regular" ELSE left.columns[k]]
                 \o [k \in 1..Len(rightCols) |->
                       IF rightCols[k] \in shared
                       THEN rightCols[k] \o "_post" ELSE rightCols[k]]
             equalKeys(lrow, rrow) ==
                 \A c \in MergeOnSet : Value(left, lrow, c) = Value(right, rrow, c)
             rightValues(rrow) ==
                 [k \in 1..Len(rightCols) |-> Value(right, rrow, rightCols[k])]
             joined(lrow) ==
                 LET matches == SelectSeq(right.rows, LAMBDA rrow : equalKeys(lrow, rrow))
                 IN  IF matches = <<>> THEN UnmatchedLeftRow(lrow, Len(rightCols))
                     ELSE [m \in 1..Len(matches) |-> lrow \o rightValues(matches[m])]
         IN  [kind |-> "returned", exc |-> "",
              df |-> Frame(columns,
                           Flatten([n \in 1..Len(left.rows) |-> joined(left.rows[n])]))]

\* merge_stats(df_regular, df_postseason): the sanity check on
\* required_columns, the warning with the concatenation, or the merge.
merge_stats(df_regular, df_postseason) ==
    IF ~(required_columns \subseteq ColumnSet(df_regular))
       \/ ~(required_columns \subseteq ColumnSet(df_postseason))
    THEN [kind |-> "returned", exc |-> "", warned |-> TRUE,
          df |-> pd_concat(df_regular, df_postseason)]
    ELSE [kind |-> pd_merge_left(df_regular, df_postseason).kind,
          exc |-> pd_merge_left(df_regular, df_postseason).exc,
          warned |-> FALSE,
          df |-> pd_merge_left(df_regular, df_postseason).df]

\* Stat tables as get_stats returns them.
StatColumns == <<"player_name", "season", "team", "league", "gp", "pts">>
Reg_2021 == <<"Jane Smith", "2021-22", "Boston Bruins", "NHL", "82", "40">>
Reg_2022 == <<"Jane Smith", "2022-23", "Edmonton Oilers", "NHL", "60", "31">>
Post_2021 == <<"Jane Smith", "2021-22", "Boston Bruins", "NHL", "7", "2">>
Post_2020 == <<"Jane Smith", "2020-21", "Boston Bruins", "NHL", "5", "1">>

\* A frame without the named column.
WithoutColumn(df, name) ==
    LET keep == {k \in 1..Len(df.columns) : df.columns[k] # name}
        pick(row) == [k \in 1..(Len(row) - 1) |->
                         IF k < ColIndex(df.columns, name) THEN row[k] ELSE row[k + 1]]
    IN  IF keep = 1..Len(df.columns) THEN df
        ELSE Frame(pick(df.columns), [n \in 1..Len(df.rows) |-> pick(df.rows[n])])

RegularFrames ==
    {Frame(StatColumns, <<Reg_2021, Reg_2022>>),
     Frame(StatColumns, <<Reg_2022>>),
     WithoutColumn(Frame(StatColumns, <<Reg_2021, Reg_2022>>), "pts"),
     WithoutColumn(Frame(StatColumns, <<Reg_2021>>), "league"),
     WithoutColumn(Frame(StatColumns, <<Reg_2021>>), "player_name")}

PostseasonFrames ==
    {Frame(StatColumns, <<Post_2021>>),
     Frame(StatColumns, <<Post_2020, Post_2021>>),
     Frame(StatColumns, <<Post_2021, Post_2021>>),
     Frame(StatColumns, <<>>),
     WithoutColumn(Frame(StatColumns, <<Post_2021>>), "team"),
     WithoutColumn(Frame(StatColumns, <<Post_2021>>), "player_name")}

(***************************************************************************)
(* Table markup: cells as the text nodes inside them                       *)
(***************************************************************************)
\* A cell of the markup is the sequence of the text nodes inside it, in
\* document order; a text is a sequence of characters.

\* A text extraction that keeps the whitespace of the nodes.
get_text_keep_whitespace(cell) == Flatten(cell)

\* td.get_text(strip=True): every text node is stripped, the empty ones are
\* dropped, and the rest are joined without a separator.
get_text_strip(cell) == Flatten([k \in 1..Len(cell) |-> Strip(cell[k])])

\* The markup of a table with every cell replaced by its extracted text.
CellTexts(markup) ==
    [present |-> markup.present,
     trs |-> [n \in 1..Len(markup.trs) |->
                [th |-> [k \in 1..Len(markup.trs[n].th) |->
                            get_text_strip(markup.trs[n].th[k])],
                 td |-> [k \in 1..Len(markup.trs[n].td) |->
                            get_text_strip(markup.trs[n].td[k])],
                 a |-> markup.trs[n].a]]]

\* table_data_to_rows on the markup of a table.
table_data_to_rows_of_markup(markup) == table_data_to_rows(CellTexts(markup))

\* Cells of stats tables: "GP" and "Team" with whitespace around the
\* text, "Goals <b>Against</b>" and "<a>Jane Smith</a> <span>(D)</span>"
\* with nested elements, and plain values.
Cell_GP == <<<<" ", "G", "P", "\n">>>>
Cell_Team == <<<<"\n", " ", "T", "e", "a", "m", " ">>>>
Cell_Goals_Against == <<<<"G", "o", "a", "l", "s", " ">>, <<"A", "g", "a", "i", "n", "s", "t">>>>
Cell_Jane == <<<<"\n", " ">>, <<"J", "a", "n", "e", " ", "S", "m", "i", "t", "h">>, <<" ">>, <<"(", "D", ")">>, <<"\n">>>>
Cell_Bruins == <<<<"B", "r", "u", "i", "n", "s">>>>
Cell_Oilers == <<<<" ", "O", "i", "l", "e", "r", "s">>>>
Cell_3 == <<<<"3">>>>
Cell_12 == <<<<"1", "2", " ">>>>

HeaderTr(cells) == [th |-> cells, td |-> <<>>, a |-> <<>>]
DataTr(cells) == [th |-> <<>>, td |-> cells, a |-> <<>>]

\* Tables handed to table_data_to_rows.
MarkupTables ==
    {Table(<<>>),
     Table(<<HeaderTr(<<Cell_GP>>)>>),
     Table(<<HeaderTr(<<Cell_Team, Cell_GP>>),
             DataTr(<<Cell_Bruins, Cell_3>>),
             DataTr(<<Cell_Oilers, Cell_12>>)>>),
     Table(<<HeaderTr(<<Cell_Team, Cell_Goals_Against>>),
             DataTr(<<Cell_Jane, Cell_12>>)>>),
     Table(<<HeaderTr(<<Cell_Team, Cell_GP>>),
             DataTr(<<Cell_Bruins>>),
             DataTr(<<Cell_Oilers, Cell_12>>)>>),
     Table(<<HeaderTr(<<Cell_GP>>),
             DataTr(<<Cell_3, Cell_12>>)>>),
     Table(<<DataTr(<<Cell_Team, Cell_GP>>),
             DataTr(<<Cell_Bruins, Cell_3>>)>>)}

(***************************************************************************)
(* The description of the facts collectors                                 *)
(***************************************************************************)
\* Python's None where a text is expected.
NoneText == <<"None">>

\* Element texts of the description block.
\* "He plays fast. He scores goals [EP 2023]"
D_cited ==
    <<"H", "e", " ", "p", "l", "a", "y", "s", " ", "f", "a", "s", "t", ".",
      " ", "H", "e", " ", "s", "c", "o", "r", "e", "s", " ", "g", "o", "a",
      "l", "s", " ", "[", "E", "P", " ", "2", "0", "2", "3", "]">>

\* " Fast skater.\n"
D_plain ==
    <<" ", "F", "a", "s", "t", " ", "s", "k", "a", "t", "e", "r", ".", "\n">>

\* "Big shot"
D_no_period ==
    <<"B", "i", "g", " ", "s", "h", "o", "t">>

\* ""
D_empty ==
    <<>>

\* "[EP 2021] x."
D_only_citation ==
    <<"[", "E", "P", " ", "2", "0", "2", "1", "]", " ", "x", ".">>

\* "Good. [EP 21]b"
D_short_year ==
    <<"G", "o", "o", "d", ".", " ", "[", "E", "P", " ", "2", "1", "]", "b">>

DescriptionTexts ==
    {D_cited, D_plain, D_no_period, D_empty, D_only_citation, D_short_year}

\* r"\[EP \d{4}\]" matches at position k.
CitationAt(s, k) ==
    /\ k + 8 <= Len(s)
    /\ SubSeq(s, k, k + 3) = <<"[", "E", "P", " ">>
    /\ \A j \in (k + 4)..(k + 7) : s[j] \in Digit
    /\ s[k + 8] = "]"

\* re.split(r"\[EP \d{4}\]", s)[0]: the text before the first match, the
\* whole text when there is none.
CitationSplitHead(s) ==
    LET at == {k \in 1..Len(s) : CitationAt(s, k)}
    IN  IF at = {} THEN s
        ELSE SubSeq(s, 1, (CHOOSE k \in at : \A j \in at : k <= j) - 1)

\* full_desc = desc_elem.text.strip()
\* description = re.split(r"\[EP \d{4}\]", full_desc)[0].strip()
DescriptionOf(text) == Strip(CitationSplitHead(Strip(text)))

\* text.rfind("."), counted from 1; 0 when there is no period.
RFindPeriod(text) ==
    LET at == {k \in 1..Len(text) : text[k] = "."}
    IN  IF at = {} THEN 0 ELSE CHOOSE k \in at : \A j \in at : j <= k

\* A truncation that keeps the text after the last period.
truncate_description_keep_tail(text) ==
    IF text = NoneText \/ text = <<>> THEN NoneText ELSE text

\* if not text: return None
\* last_period = text.rfind(".")
\* return text[:last_period + 1] if last_period != -1 else text
truncate_description(text) ==
    IF text = NoneText \/ text = <<>> THEN NoneText
    ELSE IF RFindPeriod(text) # 0 THEN SubSeq(text, 1, RFindPeriod(text))
    ELSE text

VARIABLES
    op,         \* the public operation that is running, or "idle"
    pc,         \* its position
    args,       \* its arguments
    trace,      \* the network, browser and delay events of the call, in order
    outcome,    \* how the call ended: Pending, Returned(type) or Raised(type)
    retInt,     \* the integer a call returned
    rosterRows, \* the records get_season_roster returned
    listing,    \* the response to the pagination fetch
    num_pages,  \* get_season_roster: result of get_number_of_pages
    i,          \* get_season_roster: page index of the loop
    players,    \* get_season_roster: the frames appended so far
    pagesSeen,  \* get_season_roster: the pages fetched so far
    result,     \* browser collectors: the local 'result' / value to return
    exc,        \* browser collectors: the exception in flight, "" when none
    container,  \* facts collectors: "unknown", "found" or "timeout"
    attempted,  \* facts collectors: the field groups attempted so far
    failed,     \* facts collectors: the field groups whose extraction raised
    factsRec,   \* facts collectors: the fields of the compiled record
    teamRows,   \* team roster collectors: the entries collected
    teamPage,   \* team roster collectors: the rows of the rendered table
    desc_text,  \* facts collectors: the text of the description element
    description,\* facts collectors: the local 'description'
    biography,  \* facts collectors: the "description" field of the record
    callIn,     \* a helper called on its own: its arguments
    callOut     \* a helper called on its own: what it returned or raised

vars ==
    <<op, pc, args, trace, outcome, retInt, rosterRows, listing, num_pages, i,
      players, pagesSeen, result, exc, container, attempted, failed, factsRec,
      teamRows, teamPage, desc_text, description, biography, callIn, callOut>>

rosterVars == <<retInt, rosterRows, listing, num_pages, i, players, pagesSeen>>
factsVars == <<container, attempted, failed, factsRec>>
bioVars == <<desc_text, description, biography>>
helperVars == <<callIn, callOut>>
browserVars ==
    <<result, exc, container, attempted, failed, factsRec, teamRows, teamPage,
      bioVars, helperVars>>

NoArgs == [league |-> "", season |-> <<>>, team |-> "", stats_type |-> ""]
NoListing == [div |-> FALSE, text |-> <<>>]

Init ==
    /\ op = "idle"
    /\ pc = "idle"
    /\ args = NoArgs
    /\ trace = <<>>
    /\ outcome = Pending
    /\ retInt = 0
    /\ rosterRows = <<>>
    /\ listing = NoListing
    /\ num_pages = 0
    /\ i = 0
    /\ players = <<>>
    /\ pagesSeen = <<>>
    /\ result = "None"
    /\ exc = ""
    /\ container = "unknown"
    /\ attempted = {}
    /\ failed = {}
    /\ factsRec = NoFacts
    /\ teamRows = <<>>
    /\ teamPage = <<>>
    /\ desc_text = <<>>
    /\ description = NoneText
    /\ biography = NoneText
    /\ callIn = <<>>
    /\ callOut = <<>>

Count(events, e) == Cardinality({k \in 1..Len(events) : events[k] = e})

\* The call has ended; the caller goes on to its next call.
Return ==
    /\ pc = "done"
    /\ op' = "idle"
    /\ pc' = "idle"
    /\ args' = NoArgs
    /\ trace' = <<>>
    /\ outcome' = Pending
    /\ retInt' = 0
    /\ rosterRows' = <<>>
    /\ listing' = NoListing
    /\ num_pages' = 0
    /\ i' = 0
    /\ players' = <<>>
    /\ pagesSeen' = <<>>
    /\ result' = "None"
    /\ exc' = ""
    /\ container' = "unknown"
    /\ attempted' = {}
    /\ failed' = {}
    /\ factsRec' = NoFacts
    /\ teamRows' = <<>>
    /\ teamPage' = <<>>
    /\ desc_text' = <<>>
    /\ description' = NoneText
    /\ biography' = NoneText
    /\ callIn' = <<>>
    /\ callOut' = <<>>

(***************************************************************************)
(* get_number_of_pages(url), called on its own                             *)
(***************************************************************************)
Call_get_number_of_pages ==
    /\ op = "idle"
    /\ \E resp \in PaginationResponses :
          LET r == get_number_of_pages(resp) IN
          /\ listing' = resp
          /\ outcome' = IF r.kind = "returned" THEN Returned("int") ELSE Raised(r.exc)
          /\ retInt' = r.n
    /\ op' = "get_number_of_pages"
    /\ pc' = "done"
    /\ trace' = <<"requests.get">>
    /\ UNCHANGED <<args, rosterRows, num_pages, i, players, pagesSeen, browserVars>>

(***************************************************************************)
(* get_season_roster(league, season)                                       *)
(***************************************************************************)
\* The two checks at the head of get_season_roster.
RosterValidation(league, season) ==
    IF league \notin valid_leagues THEN Raised("ValueError")
    ELSE IF ~ReMatchSeason(season) THEN Raised("ValueError")
    ELSE Pending

Call_get_season_roster ==
    /\ op = "idle"
    /\ \E league \in LeagueInputs, season \in SeasonInputs :
          /\ args' = [NoArgs EXCEPT !.league = league, !.season = season]
          /\ outcome' = RosterValidation(league, season)
          /\ pc' = IF RosterValidation(league, season) = Pending
                   THEN "pagination" ELSE "done"
    /\ op' = "get_season_roster"
    /\ UNCHANGED <<trace, rosterVars, browserVars>>

\* num_pages = get_number_of_pages(url)
Roster_get_number_of_pages ==
    /\ op = "get_season_roster"
    /\ pc = "pagination"
    /\ \E resp \in PaginationResponses :
          LET r == get_number_of_pages(resp) IN
          /\ r.n <= MaxPages
          /\ listing' = resp
          /\ num_pages' = r.n
          /\ outcome' = IF r.kind = "returned" THEN Pending ELSE Raised(r.exc)
          /\ pc' = IF r.kind = "returned" THEN "loop" ELSE "done"
    /\ trace' = Append(trace, "requests.get")
    /\ i' = 1
    /\ UNCHANGED <<op, args, retInt, rosterRows, players, pagesSeen, browserVars>>

\* One iteration of: for i in range(1, num_pages + 1)
Roster_fetch_page ==
    /\ op = "get_season_roster"
    /\ pc = "loop"
    /\ i <= num_pages
    /\ \E page \in RosterPages :
          LET step == RosterPageStep(page) IN
          /\ pagesSeen' = Append(pagesSeen, page)
          /\ players' = IF step.kind = "append"
                        THEN Append(players, [columns |-> step.columns,
                                              data |-> step.data,
                                              link |-> step.link])
                        ELSE players
          /\ trace' = IF step.kind = "append"
                      THEN trace \o <<"requests.get", "sleep">>
                      ELSE Append(trace, "requests.get")
          /\ outcome' = IF step.kind = "raised" THEN Raised(step.exc) ELSE Pending
          /\ pc' = IF step.kind = "raised" THEN "done" ELSE "loop"
    /\ i' = i + 1
    /\ UNCHANGED <<op, args, retInt, rosterRows, listing, num_pages, browserVars>>

\* The code after the loop, up to the return.
Roster_assemble ==
    /\ op = "get_season_roster"
    /\ pc = "loop"
    /\ i > num_pages
    /\ LET r == RosterAssemble(players, args.league, args.season) IN
          /\ outcome' = IF r.kind = "returned" THEN Returned("DataFrame")
                        ELSE Raised(r.exc)
          /\ rosterRows' = r.rows
    /\ pc' = "done"
    /\ UNCHANGED <<op, args, trace, retInt, listing, num_pages, i, players,
                   pagesSeen, browserVars>>

(***************************************************************************)
(* get_player_stats(player_metadata, stats_type) and get_stats             *)
(***************************************************************************)
statsFrame ==
    <<op, args, outcome, rosterVars, container, attempted, factsRec, teamRows,
      teamPage, bioVars, helperVars>>

\* The code up to uc.ChromeOptions(): the arguments are read and printed;
\* stats_type is not examined.
Call_get_player_stats ==
    /\ op = "idle"
    /\ \E st \in StatTypeInputs : args' = [NoArgs EXCEPT !.stats_type = st]
    /\ op' = "get_player_stats"
    /\ pc' = "ps_chrome"
    /\ UNCHANGED <<trace, outcome, rosterVars, browserVars>>

\* driver = uc.Chrome(...): the session starts, or the constructor raises.
PS_start_session ==
    /\ op = "get_player_stats"
    /\ pc = "ps_chrome"
    /\ \/ /\ trace' = Append(trace, "uc.Chrome")
          /\ pc' = "ps_get"
          /\ outcome' = outcome
       \/ /\ trace' = trace
          /\ pc' = "done"
          /\ outcome' = Raised("WebDriverException")
    /\ UNCHANGED <<op, args, rosterVars, browserVars>>

\* driver.get(player_url); time.sleep(...)
PS_navigate ==
    /\ op = "get_player_stats"
    /\ pc = "ps_get"
    /\ \/ /\ trace' = trace \o <<"driver.get", "sleep">>
          /\ pc' = "ps_wait"
          /\ exc' = exc
          /\ failed' = failed
       \/ /\ trace' = Append(trace, "driver.get")
          /\ pc' = StatsOuterExcept("WebDriverException").pc
          /\ exc' = StatsOuterExcept("WebDriverException").exc
          /\ failed' = failed \cup {"navigate"}
    /\ UNCHANGED <<statsFrame, result>>

\* dropdown = wait.until(element_to_be_clickable(...)); scrollIntoView
PS_wait_dropdown ==
    /\ op = "get_player_stats"
    /\ pc = "ps_wait"
    /\ trace' = Append(trace, "wait.until")
    /\ \/ /\ pc' = "ps_click"
          /\ exc' = exc
          /\ failed' = failed
       \/ /\ pc' = StatsOuterExcept("TimeoutException").pc
          /\ exc' = StatsOuterExcept("TimeoutException").exc
          /\ failed' = failed \cup {"wait"}
    /\ UNCHANGED <<statsFrame, result>>

\* dropdown.click(): succeeds, is intercepted by an overlay, or fails in
\* another way.
PS_click ==
    /\ op = "get_player_stats"
    /\ pc = "ps_click"
    /\ trace' = Append(trace, "click")
    /\ \/ /\ pc' = "gs_wait"
          /\ exc' = exc
          /\ failed' = failed
       \/ /\ pc' = "ps_find_ad"
          /\ exc' = exc
          /\ failed' = failed \cup {"click_intercepted"}
       \/ /\ pc' = StatsOuterExcept("WebDriverException").pc
          /\ exc' = StatsOuterExcept("WebDriverException").exc
          /\ failed' = failed \cup {"click"}
    /\ UNCHANGED <<statsFrame, result>>

\* except ElementClickInterceptedException: find the ad container and
\* remove it; a failure is printed and the call goes on to get_stats.
PS_remove_ad ==
    /\ op = "get_player_stats"
    /\ pc = "ps_find_ad"
    /\ \/ /\ trace' = trace \o <<"find_ad", "remove_ad", "sleep">>
          /\ pc' = "ps_retry_click"
          /\ failed' = failed
       \/ /\ trace' = Append(trace, "find_ad")
          /\ pc' = "gs_wait"
          /\ failed' = failed \cup {"find_ad"}
       \/ /\ trace' = trace \o <<"find_ad", "remove_ad">>
          /\ pc' = "gs_wait"
          /\ failed' = failed \cup {"remove_ad"}
    /\ UNCHANGED <<statsFrame, result, exc>>

\* The second dropdown.click() inside the handler; "except Exception" of the
\* handler covers it.
PS_retry_click ==
    /\ op = "get_player_stats"
    /\ pc = "ps_retry_click"
    /\ trace' = Append(trace, "click")
    /\ pc' = "gs_wait"
    /\ \/ failed' = failed
       \/ failed' = failed \cup {"retry_click"}
    /\ UNCHANGED <<statsFrame, result, exc>>

\* get_stats: "except Exception as e: print(...); return None", followed by
\* the print of get_player_stats for a None result.
GetStatsFails == [pc |-> "ps_finally", result |-> "None"]

\* get_stats: dropdown = wait.until(element_to_be_clickable(...))
GS_wait ==
    /\ op = "get_player_stats"
    /\ pc = "gs_wait"
    /\ trace' = Append(trace, "wait.until")
    /\ \/ /\ pc' = "gs_click"
          /\ result' = result
          /\ failed' = failed
       \/ /\ pc' = GetStatsFails.pc
          /\ result' = GetStatsFails.result
          /\ failed' = failed \cup {"get_stats"}
    /\ UNCHANGED <<statsFrame, exc>>

\* get_stats: scrollIntoView; dropdown.click(); time.sleep(0.3)
GS_click ==
    /\ op = "get_player_stats"
    /\ pc = "gs_click"
    /\ \/ /\ trace' = trace \o <<"click", "sleep">>
          /\ pc' = "gs_select"
          /\ result' = result
          /\ failed' = failed
       \/ /\ trace' = Append(trace, "click")
          /\ pc' = GetStatsFails.pc
          /\ result' = GetStatsFails.result
          /\ failed' = failed \cup {"get_stats"}
    /\ UNCHANGED <<statsFrame, exc>>

\* get_stats: find the search input, type stat_name, press ENTER, sleep.
GS_select ==
    /\ op = "get_player_stats"
    /\ pc = "gs_select"
    /\ \/ /\ trace' = trace \o <<"find_input", "send_keys", "send_enter", "sleep">>
          /\ pc' = "gs_table"
          /\ result' = result
          /\ failed' = failed
       \/ /\ trace' = Append(trace, "find_input")
          /\ pc' = GetStatsFails.pc
          /\ result' = GetStatsFails.result
          /\ failed' = failed \cup {"get_stats"}
       \/ /\ trace' = trace \o <<"find_input", "send_keys">>
          /\ pc' = GetStatsFails.pc
          /\ result' = GetStatsFails.result
          /\ failed' = failed \cup {"get_stats"}
    /\ UNCHANGED <<statsFrame, exc>>

\* get_stats: read driver.page_source, find the statistics table and turn
\* it into a frame; a missing table makes table_data_to_rows(None) raise.
GS_table ==
    /\ op = "get_player_stats"
    /\ pc = "gs_table"
    /\ trace' = Append(trace, "page_source")
    /\ \/ /\ pc' = "ps_finally"
          /\ result' = "DataFrame"
          /\ failed' = failed
       \/ /\ pc' = GetStatsFails.pc
          /\ result' = GetStatsFails.result
          /\ failed' = failed \cup {"get_stats"}
    /\ UNCHANGED <<statsFrame, exc>>

\* finally: driver.quit(), then "return result" (or the exception goes on).
PS_finally ==
    /\ op = "get_player_stats"
    /\ pc = "ps_finally"
    /\ trace' = trace \o StatsCleanup
    /\ outcome' = IF exc # "" THEN Raised(exc) ELSE Returned(result)
    /\ pc' = "done"
    /\ UNCHANGED <<op, args, rosterVars, browserVars>>

(***************************************************************************)
(* get_player_facts and get_player_facts_with_reusable_driver              *)
(***************************************************************************)
factsFrame == <<op, args, outcome, rosterVars, teamRows, teamPage, helperVars>>

Call_get_player_facts ==
    /\ op = "idle"
    /\ op' = "get_player_facts"
    /\ pc' = "pf_chrome"
    /\ UNCHANGED <<args, trace, outcome, rosterVars, browserVars>>

\* The caller hands over its driver and wait objects.
Call_get_player_facts_with_reusable_driver ==
    /\ op = "idle"
    /\ op' = "get_player_facts_with_reusable_driver"
    /\ pc' = "pf_get"
    /\ UNCHANGED <<args, trace, outcome, rosterVars, browserVars>>

\* get_player_facts: driver = uc.Chrome(...)
PF_start_session ==
    /\ op = "get_player_facts"
    /\ pc = "pf_chrome"
    /\ \/ /\ trace' = Append(trace, "uc.Chrome")
          /\ pc' = "pf_get"
          /\ outcome' = outcome
       \/ /\ trace' = trace
          /\ pc' = "done"
          /\ outcome' = Raised("WebDriverException")
    /\ UNCHANGED <<op, args, rosterVars, browserVars>>

\* driver.get(player_url); time.sleep(...)
PF_navigate ==
    /\ op \in FactsOps
    /\ pc = "pf_get"
    /\ \/ /\ trace' = trace \o <<"driver.get", "sleep">>
          /\ pc' = "pf_wait"
          /\ UNCHANGED <<exc, result, failed>>
       \/ /\ trace' = Append(trace, "driver.get")
          /\ pc' = "pf_exit"
          /\ exc' = FactsOuterExcept(op, "WebDriverException").exc
          /\ result' = FactsOuterExcept(op, "WebDriverException").result
          /\ failed' = failed \cup {<<"navigate", "step">>}
    /\ UNCHANGED <<factsFrame, bioVars, container, attempted, factsRec>>

\* player_facts_section = wait.until(presence_of_element_located(...))
PF_wait_container ==
    /\ op \in FactsOps
    /\ pc = "pf_wait"
    /\ trace' = Append(trace, "wait.until")
    /\ \/ /\ container' = "found"
          /\ pc' = "pf_main"
          /\ UNCHANGED <<exc, result>>
       \/ /\ container' = "timeout"
          /\ pc' = "pf_exit"
          /\ exc' = FactsOuterExcept(op, "TimeoutException").exc
          /\ result' = FactsOuterExcept(op, "TimeoutException").result
    /\ UNCHANGED <<factsFrame, bioVars, attempted, failed, factsRec>>

\* One field group: the lookup succeeds, one list item fails, or the lookup
\* of the group fails; the handlers decide whether the call goes on.
FactsGroupStep(g, here, next) ==
    /\ op \in FactsOps
    /\ pc = here
    /\ attempted' = attempted \cup {g}
    /\ \E out \in GroupOutcomes(g) :
          /\ failed' = CASE out = "ok" -> failed
                         [] out = "item_fail" -> failed \cup {<<g, "item">>}
                         [] out = "fail" -> failed \cup {<<g, "group">>}
          /\ IF GroupResult(op, g, out) = "go on"
             THEN /\ pc' = next
                  /\ UNCHANGED <<exc, result>>
             ELSE /\ pc' = "pf_exit"
                  /\ exc' = FactsOuterExcept(op, "Exception").exc
                  /\ result' = FactsOuterExcept(op, "Exception").result
    /\ UNCHANGED <<factsFrame, trace, container, factsRec>>

PF_main ==
    /\ FactsGroupStep("main", "pf_main", "pf_extra")
    /\ UNCHANGED bioVars

PF_extra ==
    /\ FactsGroupStep("extra", "pf_extra",
                      IF op = "get_player_facts" THEN "pf_height_weight" ELSE "pf_dob")
    /\ UNCHANGED bioVars

\* Reusable-driver variant only: pd.to_datetime(date_of_birth, format=...)
\* stands outside every inner handler.
PF_date_of_birth ==
    /\ op = "get_player_facts_with_reusable_driver"
    /\ pc = "pf_dob"
    /\ \/ /\ pc' = "pf_height_weight"
          /\ UNCHANGED <<exc, result, failed>>
       \/ /\ pc' = "pf_exit"
          /\ exc' = FactsOuterExcept(op, "ValueError").exc
          /\ result' = FactsOuterExcept(op, "ValueError").result
          /\ failed' = failed \cup {<<"date_of_birth", "group">>}
    /\ UNCHANGED <<factsFrame, bioVars, trace, container, attempted, factsRec>>

PF_height_weight ==
    /\ FactsGroupStep("height_weight", "pf_height_weight", "pf_highlights")
    /\ UNCHANGED bioVars

PF_highlights ==
    /\ FactsGroupStep("highlights", "pf_highlights", "pf_player_types")
    /\ UNCHANGED bioVars

PF_player_types ==
    /\ FactsGroupStep("player_types", "pf_player_types", "pf_description")
    /\ UNCHANGED bioVars

\* description = None; try: desc_elem = ...find_element(...);
\* full_desc = desc_elem.text.strip(); description = re.split(...)[0].strip()
\* except: print
PF_description ==
    /\ FactsGroupStep("description", "pf_description", "pf_compile")
    /\ IF <<"description", "group">> \in failed'
       THEN UNCHANGED <<desc_text, description>>
       ELSE \E text \in DescriptionTexts :
               /\ desc_text' = text
               /\ description' = DescriptionOf(text)
    /\ UNCHANGED biography

\* result = pd.DataFrame([{...}]): a field whose group failed holds its
\* default.
PF_compile ==
    /\ op \in FactsOps
    /\ pc = "pf_compile"
    /\ factsRec' = [g \in FactGroups |->
                      IF <<g, "group">> \in failed THEN "default" ELSE "extracted"]
    /\ biography' = truncate_description(description)
    /\ result' = "DataFrame"
    /\ pc' = "pf_exit"
    /\ UNCHANGED <<factsFrame, desc_text, description, trace, exc, container,
                   attempted, failed>>

\* The cleanup, if any, and the return or raise.
PF_exit ==
    /\ op \in FactsOps
    /\ pc = "pf_exit"
    /\ trace' = trace \o FactsCleanup(op)
    /\ outcome' = IF exc # "" THEN Raised(exc) ELSE Returned(result)
    /\ pc' = "done"
    /\ UNCHANGED <<op, args, rosterVars, browserVars>>

(***************************************************************************)
(* get_player_by_team and get_player_by_team_with_reusable_driver          *)
(***************************************************************************)
TeamOps == {"get_player_by_team", "get_player_by_team_with_reusable_driver"}

teamFrame == <<op, args, rosterVars, factsVars, bioVars, helperVars>>

\* get_player_by_team: the handlers of the try print and fall through to
\* "return pd.DataFrame(players)"; the reusable-driver variant returns None.
TeamOuterExcept(o) == IF o = "get_player_by_team" THEN "DataFrame" ELSE "None"

\* get_player_by_team: "finally: driver.quit()".
TeamCleanup(o) == IF o = "get_player_by_team" THEN <<"driver.quit">> ELSE <<>>

Call_get_player_by_team ==
    /\ op = "idle"
    /\ \E team \in TeamInputs, season \in SeasonInputs :
          /\ args' = [NoArgs EXCEPT !.team = team, !.season = season]
          /\ outcome' = TeamRosterHead(team, season)
          /\ pc' = IF TeamRosterHead(team, season) = Pending
                   THEN "tb_chrome" ELSE "done"
    /\ op' = "get_player_by_team"
    /\ UNCHANGED <<trace, rosterVars, browserVars>>

Call_get_player_by_team_with_reusable_driver ==
    /\ op = "idle"
    /\ \E team \in TeamInputs, season \in SeasonInputs :
          /\ args' = [NoArgs EXCEPT !.team = team, !.season = season]
          /\ outcome' = TeamRosterHead(team, season)
          /\ pc' = IF TeamRosterHead(team, season) = Pending
                   THEN "tb_get" ELSE "done"
    /\ op' = "get_player_by_team_with_reusable_driver"
    /\ UNCHANGED <<trace, rosterVars, browserVars>>

\* get_player_by_team: driver = uc.Chrome(...)
TB_start_session ==
    /\ op = "get_player_by_team"
    /\ pc = "tb_chrome"
    /\ \/ /\ trace' = Append(trace, "uc.Chrome")
          /\ pc' = "tb_get"
          /\ outcome' = outcome
       \/ /\ trace' = trace
          /\ pc' = "done"
          /\ outcome' = Raised("WebDriverException")
    /\ UNCHANGED <<teamFrame, result, exc, teamRows, teamPage>>

\* driver.get(url).  In get_player_by_team the call stands before the try,
\* so its exception leaves the function at once; in the reusable-driver
\* variant it stands inside the try.
TB_navigate ==
    /\ op \in TeamOps
    /\ pc = "tb_get"
    /\ trace' = Append(trace, "driver.get")
    /\ \/ /\ pc' = "tb_wait"
          /\ UNCHANGED <<outcome, result>>
       \/ /\ op = "get_player_by_team"
          /\ pc' = "done"
          /\ outcome' = Raised("WebDriverException")
          /\ result' = result
       \/ /\ op = "get_player_by_team_with_reusable_driver"
          /\ pc' = "tb_exit"
          /\ outcome' = outcome
          /\ result' = TeamOuterExcept(op)
    /\ UNCHANGED <<teamFrame, exc, teamRows, teamPage>>

\* wait.until(presence_of_element_located("table.rt-table")); time.sleep(2)
TB_wait_table ==
    /\ op \in TeamOps
    /\ pc = "tb_wait"
    /\ \/ /\ trace' = trace \o <<"wait.until", "sleep">>
          /\ pc' = "tb_rows"
          /\ result' = result
       \/ /\ trace' = Append(trace, "wait.until")
          /\ pc' = "tb_exit"
          /\ result' = TeamOuterExcept(op)
    /\ UNCHANGED <<teamFrame, outcome, exc, teamRows, teamPage>>

\* rows = driver.find_elements(...) and the loop over the rows.
TB_rows ==
    /\ op \in TeamOps
    /\ pc = "tb_rows"
    /\ trace' = Append(trace, "find_elements")
    /\ \/ /\ \E page \in TeamPages :
                /\ teamPage' = page
                /\ teamRows' = TeamRowEntries(op, page)
          /\ result' = "DataFrame"
       \/ /\ UNCHANGED <<teamRows, teamPage>>
          /\ result' = TeamOuterExcept(op)
    /\ pc' = "tb_exit"
    /\ UNCHANGED <<teamFrame, outcome, exc>>

\* The cleanup, if any, and the return.
TB_exit ==
    /\ op \in TeamOps
    /\ pc = "tb_exit"
    /\ trace' = trace \o TeamCleanup(op)
    /\ outcome' = Returned(result)
    /\ pc' = "done"
    /\ UNCHANGED <<teamFrame, result, exc, teamRows, teamPage>>

(***************************************************************************)
(* table_data_to_rows(table), called on its own                            *)
(***************************************************************************)
collectorVars ==
    <<result, exc, container, attempted, failed, factsRec, teamRows, teamPage,
      bioVars>>

Call_table_data_to_rows ==
    /\ op = "idle"
    /\ \E markup \in MarkupTables :
          LET df == table_data_to_rows_of_markup(markup) IN
          /\ callIn' = markup
          /\ callOut' = df
          /\ outcome' = IF df.kind = "returned" THEN Returned("DataFrame")
                         ELSE Raised(df.exc)
    /\ op' = "table_data_to_rows"
    /\ pc' = "done"
    /\ UNCHANGED <<args, trace, rosterVars, collectorVars>>

(***************************************************************************)
(* merge_stats(df_regular, df_postseason), called on its own               *)
(***************************************************************************)
Call_merge_stats ==
    /\ op = "idle"
    /\ \E df_regular \in RegularFrames, df_postseason \in PostseasonFrames :
          LET r == merge_stats(df_regular, df_postseason) IN
          /\ callIn' = [df_regular |-> df_regular, df_postseason |-> df_postseason]
          /\ callOut' = r
          /\ outcome' = IF r.kind = "returned" THEN Returned("DataFrame")
                         ELSE Raised(r.exc)
    /\ op' = "merge_stats"
    /\ pc' = "done"
    /\ UNCHANGED <<args, trace, rosterVars, collectorVars>>

(***************************************************************************)
(* Specification                                                           *)
(***************************************************************************)
Next ==
    \/ Call_get_number_of_pages
    \/ Call_table_data_to_rows
    \/ Call_merge_stats
    \/ Call_get_season_roster
    \/ Roster_get_number_of_pages
    \/ Roster_fetch_page
    \/ Roster_assemble
    \/ Call_get_player_stats
    \/ PS_start_session
    \/ PS_navigate
    \/ PS_wait_dropdown
    \/ PS_click
    \/ PS_remove_ad
    \/ PS_retry_click
    \/ GS_wait
    \/ GS_click
    \/ GS_select
    \/ GS_table
    \/ PS_finally
    \/ Call_get_player_facts
    \/ Call_get_player_facts_with_reusable_driver
    \/ PF_start_session
    \/ PF_navigate
    \/ PF_wait_container
    \/ PF_main
    \/ PF_extra
    \/ PF_date_of_birth
    \/ PF_height_weight
    \/ PF_highlights
    \/ PF_player_types
    \/ PF_description
    \/ PF_compile
    \/ PF_exit
    \/ Call_get_player_by_team
    \/ Call_get_player_by_team_with_reusable_driver
    \/ TB_start_session
    \/ TB_navigate
    \/ TB_wait_table
    \/ TB_rows
    \/ TB_exit
    \/ Return

Spec == Init /\ [][Next]_vars

(***************************************************************************)
(* Properties                                                              *)
(***************************************************************************)
SessionsStarted == Count(trace, "uc.Chrome")
SessionsQuit == Count(trace, "driver.quit")
HttpRequests == Count(trace, "requests.get")
Navigations == Count(trace, "driver.get")

\* The form YYYY-YYYY: four digits, a dash, four digits, and nothing else.
IsYYYYdashYYYY(season) ==
    /\ Len(season) = 9
    /\ \A k \in {1, 2, 3, 4, 6, 7, 8, 9} : season[k] \in Digit
    /\ season[5] = "-"

\* C1: get_season_roster called with a league outside the valid-league list
\* or with a season that is not of the form YYYY-YYYY raises a validation
\* error, and no HTTP request has been issued when it is raised.
C1_InvalidInputRaisesBeforeNetwork ==
    (/\ op = "get_season_roster"
     /\ \/ args.league \notin valid_leagues
        \/ ~IsYYYYdashYYYY(args.season))
    => (outcome = Raised("ValueError") /\ HttpRequests = 0)

\* C2: a team roster collector called with a valid team and season
\* "2004-2005" returns an empty (absent) result, having started no browser
\* session and made no navigation or other network call.
C2_LockoutSeasonReturnsEmptyWithoutNetwork ==
    (/\ op \in TeamOps
     /\ args.team \in valid_teams
     /\ args.season = S_2004_2005)
    => (/\ pc = "done"
        /\ outcome = Returned("None")
        /\ teamRows = <<>>
        /\ trace = <<>>)

C2_Witness ==
    /\ op = "get_player_by_team_with_reusable_driver"
    /\ args.team = "bruins"
    /\ args.season = S_2004_2005
    /\ outcome = Returned("None")

ValidStatTypes == {"Regular Season", "Postseason", "Regular Season + Postseason"}

\* C3: get_player_stats called with a stat-category label outside the three
\* valid labels raises a validation error at once, before a browser session
\* is started and before any navigation.
C3_InvalidStatTypeRaisesBeforeBrowser ==
    (op = "get_player_stats" /\ args.stats_type \notin ValidStatTypes)
    => (/\ outcome = Raised("ValueError")
        /\ SessionsStarted = 0
        /\ Navigations = 0)

\* C4: in get_player_stats and get_player_facts, on every exit path after the
\* session has been created the session is released exactly once before the
\* call returns, and it is never released twice.
C4_OwnedSessionReleasedExactlyOnce ==
    (op \in {"get_player_stats", "get_player_facts"})
    => (/\ SessionsQuit <= SessionsStarted
        /\ (pc = "done" /\ SessionsStarted = 1) => SessionsQuit = 1)

C4_Witness ==
    /\ op = "get_player_facts"
    /\ pc = "done"
    /\ container = "timeout"
    /\ SessionsStarted = 1
    /\ SessionsQuit = 1

\* The steps of get_player_stats whose failure ends the call with None.
StatsFatalSteps == {"navigate", "wait", "click", "get_stats"}

\* C5 (as amended): once its browser session exists, get_player_stats never
\* raises; it returns None when navigation, the wait for the control, a
\* click failure other than an interception, or get_stats fails; an
\* intercepted click, a failed overlay removal and a failed retried click
\* are only logged, get_stats still runs and its result is returned.
C5_StatsNeverRaisesNoneOnFatalFailure ==
    (op = "get_player_stats" /\ pc = "done" /\ SessionsStarted = 1)
    => (/\ outcome.kind = "returned"
        /\ (failed \cap StatsFatalSteps # {}) => outcome = Returned("None")
        /\ (failed \cap StatsFatalSteps = {}) => outcome = Returned("DataFrame"))

C5_Witness ==
    /\ op = "get_player_stats"
    /\ pc = "done"
    /\ "wait" \in failed
    /\ outcome = Returned("None")

\* C5 (original): once its browser session exists, get_player_stats never
\* raises, and whenever navigation, the wait, the click, the overlay removal
\* or the table extraction fails the call returns None.
C5_Original_AnyFailureReturnsNone ==
    (op = "get_player_stats" /\ pc = "done" /\ SessionsStarted = 1)
    => (/\ outcome.kind = "returned"
        /\ (failed \cap (StatsFatalSteps \cup {"find_ad", "remove_ad", "retry_click"}) # {})
              => outcome = Returned("None"))

\* No fetched page had a roster table with a populated row.
NoPageContributed ==
    \A k \in 1..Len(pagesSeen) :
        ~pagesSeen[k].present \/ PopulatedRows(pagesSeen[k]) = 0

\* C6: get_season_roster with valid league and season returns an empty
\* record set, without raising, when the pagination resolver returned 0
\* pages or every fetched page had no roster table or no populated rows.
C6_EmptyRosterWhenNoPageContributed ==
    (/\ op = "get_season_roster"
     /\ pc = "done"
     /\ args.league \in valid_leagues
     /\ IsYYYYdashYYYY(args.season)
     /\ HttpRequests >= 1
     /\ get_number_of_pages(listing).kind = "returned"
     /\ Len(pagesSeen) = num_pages
     /\ NoPageContributed)
    => (outcome = Returned("DataFrame") /\ rosterRows = <<>>)

\* The count pattern "<count> players found" read off a text: the count is
\* a run of digits and separating whitespace that starts with a digit and
\* reaches up to the words; its value is that of its digits.
CountRuns(text) ==
    {<<a, b>> \in (1..Len(text)) \X (1..Len(text)) :
        /\ a <= b
        /\ text[a] \in Digit
        /\ a = 1 \/ text[a - 1] \notin Digit \cup Whitespace
        /\ \A k \in a..b : text[k] \in Digit \cup Whitespace
        /\ LiteralAt(text, b + 1)}

HasCountPattern(text) == CountRuns(text) # {}

CountValue(text) ==
    LET run == CHOOSE r \in CountRuns(text) :
                   \A q \in CountRuns(text) : r[1] <= q[1]
    IN  DigitsValue(SelectSeq(SubSeq(text, run[1], run[2]),
                              LAMBDA c : c \in Digit))

ExpectedPages(resp) ==
    IF resp.div /\ HasCountPattern(resp.text)
    THEN (CountValue(resp.text) \div 100) + 1
    ELSE 0

\* C7: get_number_of_pages fetches the listing URL exactly once and returns
\* floor(count/100)+1 when the indicator text contains "<count> players
\* found" (count read with its interior whitespace removed), and 0 when the
\* indicator is absent or its text does not contain the count pattern.
C7_PagesFromCountOrZero ==
    (op = "get_number_of_pages" /\ pc = "done")
    => (/\ HttpRequests = 1
        /\ outcome = Returned("int")
        /\ retInt = ExpectedPages(listing))

\* A failure of one of the field groups the facts record is built from.
GroupFailed(g) == <<g, "group">> \in failed \/ <<g, "item">> \in failed

DateOfBirthFailed == <<"date_of_birth", "group">> \in failed

\* The reusable-driver variant hit a failure it re-raises.
ReusableFatal ==
    /\ op = "get_player_facts_with_reusable_driver"
    /\ GroupFailed("main") \/ GroupFailed("extra") \/ DateOfBirthFailed

C9_ContainerTimeoutEmptyOrRaise ==
    (op \in FactsOps /\ pc = "done" /\ container = "timeout")
    => (/\ factsRec = NoFacts
        /\ attempted = {}
        /\ op = "get_player_facts" => outcome = Returned("EmptyDataFrame")
        /\ op = "get_player_facts_with_reusable_driver" => outcome.kind = "raised")

C9_Witness ==
    /\ op = "get_player_facts_with_reusable_driver"
    /\ pc = "done"
    /\ container = "timeout"
    /\ outcome = Raised("Exception")

\* C10: every row get_season_roster returns has a link that contains
\* "/player/"; a table row without such an href is discarded, not returned
\* with an absent link.
C10_EveryReturnedRowHasPlayerLink ==
    (op = "get_season_roster" /\ pc = "done" /\ outcome.kind = "returned")
    => \A k \in 1..Len(rosterRows) :
          /\ ~rosterRows[k].link.na
          /\ ContainsPlayerMarker(rosterRows[k].link.href)

\* The events of a trace that are among the given ones, in order.
Only(events, kinds) == SelectSeq(events, LAMBDA e : e \in kinds)

\* C16: in get_season_roster a randomized delay is taken between any two
\* consecutive page fetches, whether or not the earlier page had a roster
\* table or populated rows.  (The first request of the trace is the
\* pagination fetch; the page fetches follow it.)
C16_DelayBetweenConsecutivePageFetches ==
    (op = "get_season_roster")
    => \A k \in 2..(Len(trace) - 1) :
          ~(trace[k] = "requests.get" /\ trace[k + 1] = "requests.get")

\* C17: within one get_player_stats call the selector control receives at
\* most two click attempts, the initial one and the single retry after an
\* interception, counting the clicks of get_player_stats and of get_stats
\* together.
C17_AtMostTwoClickAttempts ==
    (op = "get_player_stats") => Count(trace, "click") <= 2

\* C19: get_player_by_team releases its browser session on every exit path
\* after the session is created, the failed navigation to the team stats URL
\* included.
C19_TeamSessionReleasedOnEveryExit ==
    (op = "get_player_by_team" /\ pc = "done" /\ SessionsStarted = 1)
    => SessionsQuit = 1

\* The events on the stat-category control and its table.
ControlEvents == {"click", "send_keys", "send_enter", "page_source"}

\* C20: in a get_player_stats call without interception or timeout the
\* control is opened by exactly one click and the actions on it follow
\* open, type-query, confirm, (await-render,) read-table, so a control that
\* toggles on click is open when the label is typed.
C20_ControlOpenedByOneClick ==
    (op = "get_player_stats" /\ pc = "done" /\ failed = {}
        /\ outcome = Returned("DataFrame"))
    => Only(trace, ControlEvents)
          = <<"click", "send_keys", "send_enter", "page_source">>

\* "He plays fast."
B_fast ==
    <<"H", "e", " ", "p", "l", "a", "y", "s", " ", "f", "a", "s", "t", ".">>

\* "He plays fast. He scores goals"
B_fast_goals ==
    <<"H", "e", " ", "p", "l", "a", "y", "s", " ", "f", "a", "s", "t", ".",
      " ", "H", "e", " ", "s", "c", "o", "r", "e", "s", " ", "g", "o", "a",
      "l", "s">>

\* A facts call returned a compiled record whose description element had
\* the text "He plays fast. He scores goals [EP 2023]".
CitedDescriptionCompiled ==
    /\ op \in FactsOps
    /\ pc = "done"
    /\ outcome = Returned("DataFrame")
    /\ factsRec["description"] = "extracted"
    /\ desc_text = D_cited

\* C14: the biography stored for the element text "He plays fast. He scores
\* goals [EP 2023]" is "He plays fast.": the citation marker and what
\* follows it are discarded and the rest is cut after its last period, which
\* drops the unfinished sentence "He scores goals".
C14_BiographyCutAfterLastPeriod ==
    CitedDescriptionCompiled => biography = B_fast

C14_Witness == CitedDescriptionCompiled /\ biography = B_fast

\* C14 as stated: the stored biography is "He plays fast. He scores goals".
C14_Original_BiographyKeepsLastSentence ==
    CitedDescriptionCompiled => biography = B_fast_goals

\* The entries of a rendered team table with one entry per row whose
\* name/link anchor is found.
OneEntryPerNamedRow(rows) ==
    Flatten([k \in 1..Len(rows) |->
                IF rows[k].name = "found"
                THEN <<[player_name |-> rows[k].id,
                        player_pos |-> IF rows[k].pos = "" THEN "G"
                                       ELSE rows[k].pos,
                        player_link |-> <<"player", rows[k].id>>,
                        player_image |-> rows[k].img]>>
                ELSE <<>>])

\* C15: both team roster collectors return exactly one entry for every row
\* whose name/link anchor is found, whichever headshot outcome occurs, with
\* position "G" when the row has no position label; a row whose extraction
\* raises is skipped without stopping the rows after it; so both return
\* the same entries for the same rendered page.
C15_OneEntryPerNamedRowInBothCollectors ==
    (op \in TeamOps /\ pc = "done" /\ outcome = Returned("DataFrame")
        /\ Count(trace, "find_elements") = 1)
    => teamRows = OneEntryPerNamedRow(teamPage)

\* The text ends with a parenthetical.
HasTrailingParenthetical(s) ==
    /\ s # <<>>
    /\ s[Len(s)] = ")"
    /\ \E j \in 1..(Len(s) - 1) : s[j] = "("

\* Where the trailing parenthetical opens.
TrailingOpen(s) ==
    CHOOSE j \in 1..(Len(s) - 1) :
        s[j] = "(" /\ \A k \in (j + 1)..(Len(s) - 1) : s[k] # "("

\* Name, position and role as stated for a player display string.
DerivedAsStated(s) ==
    IF HasTrailingParenthetical(s)
    THEN LET pos == SubSeq(s, TrailingOpen(s) + 1, Len(s) - 1)
         IN  [player_name |-> RStrip(SubSeq(s, 1, TrailingOpen(s) - 1)),
              position |-> pos,
              fw_def |-> IF \E k \in 1..Len(pos) : pos[k] = "D"
                         THEN "DEF" ELSE "FW"]
    ELSE [player_name |-> s, position |-> NaNText, fw_def |-> "FW"]

\* C11: for every roster row the derived name is the player display string
\* without its trailing parenthetical, the derived position is the
\* parenthetical content, and the derived role is "DEF" exactly when the
\* position contains "D" and "FW" otherwise, a display string with no
\* parenthetical (absent position) included.
C11_DerivedNamePositionRole ==
    (op = "get_season_roster" /\ pc = "done" /\ outcome = Returned("DataFrame"))
    => \A n \in 1..Len(rosterRows) :
          LET stated == DerivedAsStated(Chars(rosterRows[n].player))
          IN  /\ rosterRows[n].player_name = stated.player_name
              /\ rosterRows[n].position = stated.position
              /\ rosterRows[n].fw_def = stated.fw_def

\* The table has a first row of H >= 1 header cells and every following
\* row has H data cells.
WellFormed(markup) ==
    /\ markup.trs # <<>>
    /\ markup.trs[1].th # <<>>
    /\ \A n \in 2..Len(markup.trs) :
          Len(markup.trs[n].td) = Len(markup.trs[1].th)

\* The text nodes of a cell joined after each is stripped of its
\* surrounding whitespace.
RECURSIVE NodesStrippedAndJoined(_)
NodesStrippedAndJoined(cell) ==
    IF cell = <<>> THEN <<>>
    ELSE RStrip(LStrip(Head(cell))) \o NodesStrippedAndJoined(Tail(cell))

\* The text of a cell as it stands in the document.
RECURSIVE TextOf(_)
TextOf(cell) == IF cell = <<>> THEN <<>> ELSE Head(cell) \o TextOf(Tail(cell))

\* R rows and H columns, in document order.
ShapeAsStated ==
    /\ callOut.kind = "returned"
    /\ Len(callOut.columns) = Len(callIn.trs[1].th)
    /\ Len(callOut.data) = Len(callIn.trs) - 1
    /\ \A n \in 1..Len(callOut.data) :
          /\ Len(callOut.data[n]) = Len(callIn.trs[1].th)
          /\ \A k \in 1..Len(callOut.data[n]) :
                callOut.data[n][k] = NodesStrippedAndJoined(callIn.trs[n + 1].td[k])

JoinColumns == {"player_name", "season", "team", "league"}

BothCarryJoinColumns ==
    /\ JoinColumns \subseteq ColumnSet(callIn.df_regular)
    /\ JoinColumns \subseteq ColumnSet(callIn.df_postseason)

\* Two rows of two frames agree on the join columns.
SameKey(df1, row1, df2, row2) ==
    \A c \in JoinColumns : Value(df1, row1, c) = Value(df2, row2, c)

\* The stat columns of a frame.
Stats(df) == ColumnSet(df) \ JoinColumns

\* The name under which the result carries a stat column of one side.
Suffixed(c, suffix) ==
    IF c \in Stats(callIn.df_regular) \cap Stats(callIn.df_postseason)
    THEN c \o suffix ELSE c

\* A result row carries the values of a regular-season row.
CarriesRegular(out, reg) ==
    /\ SameKey(callOut.df, out, callIn.df_regular, reg)
    /\ \A c \in Stats(callIn.df_regular) :
          Value(callOut.df, out, Suffixed(c, "_regular"))
             = Value(callIn.df_regular, reg, c)

\* A result row carries the stats of a postseason row.
CarriesPost(out, post) ==
    \A c \in Stats(callIn.df_postseason) :
        Value(callOut.df, out, Suffixed(c, "_post"))
           = Value(callIn.df_postseason, post, c)

\* C12: on two tables that both carry the join columns merge_stats is a
\* left join on (player_name, season, team, league): every regular-season
\* row appears in the result, a regular-season row with a matching
\* postseason row carries both stat sets under the suffixes _regular and
\* _post, and a postseason row matching no regular-season row does not
\* appear.
C12_MergeIsLeftJoinOnKey ==
    (op = "merge_stats" /\ pc = "done" /\ BothCarryJoinColumns)
    => LET reg == callIn.df_regular
           post == callIn.df_postseason
           out == callOut.df
       IN  /\ callOut.kind = "returned"
           /\ ~callOut.warned
           /\ \A n \in 1..Len(reg.rows) :
                 \E m \in 1..Len(out.rows) : CarriesRegular(out.rows[m], reg.rows[n])
           /\ \A n \in 1..Len(reg.rows), p \in 1..Len(post.rows) :
                 SameKey(reg, reg.rows[n], post, post.rows[p])
                 => \E m \in 1..Len(out.rows) :
                       /\ CarriesRegular(out.rows[m], reg.rows[n])
                       /\ CarriesPost(out.rows[m], post.rows[p])
           /\ \A p \in 1..Len(post.rows) :
                 (\A n \in 1..Len(reg.rows) :
                     ~SameKey(reg, reg.rows[n], post, post.rows[p]))
                 => \A m \in 1..Len(out.rows) :
                       ~SameKey(out, out.rows[m], post, post.rows[p])
           /\ \A m \in 1..Len(out.rows) :
                 \E n \in 1..Len(reg.rows) : CarriesRegular(out.rows[m], reg.rows[n])

\* A regular-season table of two rows merged with a postseason table that
\* has one matching and one unmatched row.
C12_Witness ==
    /\ op = "merge_stats"
    /\ pc = "done"
    /\ BothCarryJoinColumns
    /\ callIn.df_regular.rows = <<Reg_2021, Reg_2022>>
    /\ callIn.df_postseason.rows = <<Post_2020, Post_2021>>
    /\ Len(callOut.df.rows) = 2
    /\ HasColumn(callOut.df.columns, "gp_regular")
    /\ HasColumn(callOut.df.columns, "gp_post")

\* C13: merge_stats never fails because a join column is missing: when any
\* of player_name, season, team, league is absent from either table it logs
\* the warning and returns the concatenation of the two tables.
C13_MissingJoinColumnGivesConcatenation ==
    (op = "merge_stats" /\ pc = "done" /\ ~BothCarryJoinColumns)
    => /\ outcome = Returned("DataFrame")
       /\ callOut.warned
       /\ Len(callOut.df.rows)
             = Len(callIn.df_regular.rows) + Len(callIn.df_postseason.rows)

====
